---- MODULE Spec2Model ----
(***************************************************************************)
(* Worker control plane of glean-indexing-sdk                              *)
(*   src/src/glean/indexing/worker/main.py      WorkerServer (dispatcher)  *)
(*   src/src/glean/indexing/worker/executor.py  ConnectorExecutor          *)
(*   src/src/glean/indexing/worker/discovery.py ProjectDiscovery           *)
(*                                                                         *)
(* Spec     the dispatcher and the execution tasks, parent alive, stdin    *)
(*          open, no signal                                                *)
(* LifeSpec the same with signals, the parent watchdog and end of input,   *)
(*          under the fairness of the event loop                           *)
(* DiscSpec discover_connectors applied to the files of a project          *)
(* InstSpec _try_instantiate_data_client applied to a data-client class    *)
(* MockSpec _load_mock_data and the choice of the fetch path               *)
(*                                                                         *)
(* Everything runs on one asyncio event loop, so exactly one coroutine     *)
(* runs at a time and control changes hands only at an await that really   *)
(* suspends.  `cur` names the execution task that holds the loop (0: the   *)
(* loop is idle and the request loop or any ready task may run next).      *)
(* asyncio.Event.wait() returns at once when the event is set and          *)
(* otherwise parks a future that Event.set() resolves: a parked waiter     *)
(* that was resolved resumes even if the event is cleared again before it  *)
(* runs (`woken`).                                                         *)
(***************************************************************************)
EXTENDS Integers, FiniteSets, Sequences, TLC

\* ---- bounds ----
MaxExec == 2
MaxRecords == 2
MaxReqs == 4
MaxLifeReqs == 2
MaxFiles == 3
MaxClasses == 1
MaxBases == 2
MaxParams == 2

Execs == 1..MaxExec
Tasks == 1..MaxExec

\* ExecutionState (executor.py 33-41)
ExecutionState == {"pending", "running", "paused", "completed", "aborted", "error"}
Terminal == {"completed", "aborted", "error"}
LiveStates == {"pending", "running", "paused"}

\* request methods routed by handle_request (main.py 85-99)
Controls == {"pause", "resume", "step", "abort"}

VARIABLES
    running,            \* WorkerServer._running
    executor,           \* WorkerServer.executor: 0 is None, else the executor object
    nexec,              \* number of ConnectorExecutor objects constructed so far
    nreq,               \* number of request lines taken from the stdin queue so far
    nresp,              \* number of responses written by send_response so far
    lastResp,           \* the response written last by send_response
    cur,                \* the task that holds the event loop, 0 when none does
    state,              \* ConnectorExecutor.state
    pause_event,        \* ConnectorExecutor._pause_event (TRUE: set)
    step_event,         \* ConnectorExecutor._step_event (TRUE: set)
    abort_requested,    \* ConnectorExecutor._abort_requested
    step_mode,          \* ConnectorExecutor._step_mode
    execution_id,       \* ConnectorExecutor.execution_id, connector_info, 0 is None
    connector_info,     \* ConnectorExecutor.connector_info is set (FALSE: None)
    total_records,      \* ConnectorExecutor.total_records
    successful_records, \* ConnectorExecutor.successful_records
    failed_records,     \* ConnectorExecutor.failed_records
    pc,                 \* position of each _run_execution task
    ex,                 \* the executor object a task called execute() on, 0 before it started
    cfg,                \* (connector_name, ExecutionConfig) the task was created with
    idx,                \* loop index of the task's current record loop
    nrec,               \* len(mock_data) / len(fetched_records) of the task
    waiting,            \* what the suspended task awaits, "none" when it is not suspended
    woken,              \* the awaited future is resolved: the task is ready to resume
    recEvents,          \* record_fetched + transform_complete + transform_error written by the task
    completes,          \* execution_complete notifications written by the task
    success,            \* the success field of the task's execution_complete
    steps,              \* step() calls received per executor object
    pauseAcc,           \* a pause accepted while an execution was running is in force (no resume or abort since)
    events,             \* phase_start / phase_complete notifications written by the task, in order
    fetched,            \* record_fetched notifications written by the task
    trComplete,         \* transform_complete notifications written by the task
    trError,            \* transform_error notifications written by the task
    exited,             \* the request loop of run() has left (main.py 299, 310)
    drain,              \* the request loop is suspended behind tasks a handler made ready
    parent_alive,       \* os.getppid() still returns WorkerServer._parent_pid
    stdin_eof,          \* the stdin reader has queued its end-of-input marker
    tree,               \* the .py files of the project, in the order rglob yields them
    layout,             \* "flat": files lie in the project directory, "src": under src/
    all_classes,        \* the ClassInfo records handed to _categorize_and_link
    client_class,       \* the data-client class handed to _try_instantiate_data_client
    environ,            \* os.environ: the set of variables that are set
    instance,           \* what _try_instantiate_data_client returned
    mock_file,          \* the mock data file of the project: where it lies, what it holds
    fetch_plan,         \* the fetch path execute chose and the records it works on
    returned            \* whether _categorize_and_link was called, and the list it returned

vars == <<running, executor, nexec, nreq, nresp, lastResp, cur, state, pause_event, step_event,
          abort_requested, step_mode, execution_id, connector_info, total_records, successful_records,
          failed_records, pc, ex, cfg, idx, nrec, waiting, woken, recEvents,
          completes, success, steps, pauseAcc, events, fetched, trComplete, trError,
          exited, drain, parent_alive, stdin_eof, tree, layout, all_classes,
          returned, client_class, environ, instance, mock_file, fetch_plan>>

workerVars == <<running, executor, nexec, nreq, nresp, lastResp>>
execVars == <<state, pause_event, step_event, abort_requested, step_mode, execution_id, connector_info,
              total_records, successful_records, failed_records>>
taskVars == <<pc, ex, cfg, idx, nrec, waiting, woken>>
histVars == <<recEvents, completes, success, steps, pauseAcc>>
noteVars == <<events, fetched, trComplete, trError>>
envVars == <<parent_alive, stdin_eof>>
discVars == <<tree, layout, all_classes, returned>>
loaderVars == <<client_class, environ, instance, mock_file, fetch_plan>>

NoCfg == [connector |-> "", step_mode |-> FALSE]
\* a response: the method it answers ("" when the line was never routed),
\* its result or error code, its id (0 is null) and the execution_id of
\* its result (0: null or no such field)
NoResp == [method |-> "", code |-> "", id |-> 0, execution_id |-> 0]

\* PhaseStartNotification(phase) and PhaseCompleteNotification(phase,
\* records_processed) as the executor writes them (executor.py 217-221,
\* 242-248); a phase_start carries n = 0
PhaseStart(p) == [type |-> "phase_start", phase |-> p, n |-> 0]
PhaseComplete(p, n) == [type |-> "phase_complete", phase |-> p, n |-> n]

\* WorkerServer.__init__ (main.py 36-42); the slots of executor objects and
\* tasks that do not exist yet hold the values ConnectorExecutor.__init__
\* (executor.py 55-80) gives them.
InitWorker ==
    /\ running = TRUE
    /\ executor = 0
    /\ nexec = 0
    /\ nreq = 0
    /\ nresp = 0
    /\ lastResp = NoResp
    /\ cur = 0
    /\ state = [e \in Execs |-> "pending"]
    /\ pause_event = [e \in Execs |-> TRUE]
    /\ step_event = [e \in Execs |-> FALSE]
    /\ abort_requested = [e \in Execs |-> FALSE]
    /\ step_mode = [e \in Execs |-> FALSE]
    /\ execution_id = [e \in Execs |-> 0]
    /\ connector_info = [e \in Execs |-> FALSE]
    /\ total_records = [e \in Execs |-> 0]
    /\ successful_records = [e \in Execs |-> 0]
    /\ failed_records = [e \in Execs |-> 0]
    /\ pc = [t \in Tasks |-> "none"]
    /\ ex = [t \in Tasks |-> 0]
    /\ cfg = [t \in Tasks |-> NoCfg]
    /\ idx = [t \in Tasks |-> 0]
    /\ nrec = [t \in Tasks |-> 0]
    /\ waiting = [t \in Tasks |-> "none"]
    /\ woken = [t \in Tasks |-> FALSE]
    /\ recEvents = [t \in Tasks |-> 0]
    /\ completes = [t \in Tasks |-> 0]
    /\ success = [t \in Tasks |-> FALSE]
    /\ steps = [e \in Execs |-> 0]
    /\ pauseAcc = [e \in Execs |-> FALSE]
    /\ events = [t \in Tasks |-> <<>>]
    /\ fetched = [t \in Tasks |-> 0]
    /\ trComplete = [t \in Tasks |-> 0]
    /\ trError = [t \in Tasks |-> 0]
    /\ exited = FALSE
    /\ drain = FALSE
    /\ parent_alive = TRUE
    /\ stdin_eof = FALSE

\* nothing has been discovered yet
NotReturned == [called |-> FALSE, raised |-> FALSE, list |-> <<>>]

\* the parameter names a data-client constructor is given here
ParamNames == {"url", "token", "logger"}

\* no data client has been instantiated yet
NoClass == [params |-> <<>>, defaults |-> {}, rejects_none |-> FALSE, sig_fails |-> FALSE]
NotInstantiated ==
    [called |-> FALSE, raised |-> FALSE, obj |-> [p \in ParamNames |-> "absent"]]

InitDiscovery ==
    /\ tree = <<>>
    /\ layout = "flat"
    /\ all_classes = <<>>
    /\ returned = NotReturned

\* no mock data file; execute has not chosen a fetch path yet
NoMockFile == [source |-> "none", shape |-> "list", records |-> <<>>]
NotPlanned == [called |-> FALSE, path |-> "", records |-> <<>>]

InitInstance ==
    /\ client_class = NoClass
    /\ environ = {}
    /\ instance = NotInstantiated

InitMock ==
    /\ mock_file = NoMockFile
    /\ fetch_plan = NotPlanned

InitLoader ==
    /\ InitInstance
    /\ InitMock

Init ==
    /\ InitWorker
    /\ InitDiscovery
    /\ InitLoader

\* ---------------------------------------------------------------------
\* asyncio.Event.set(): resolve the future of every task parked on one of
\* the events `evs` of executor object e.
WakeWaiters(e, evs) ==
    [t \in Tasks |-> IF ex[t] = e /\ waiting[t] \in evs THEN TRUE ELSE woken[t]]

\* a task whose step a request handler has scheduled: create_task
\* (main.py 201) or the Event.set() of resume / abort (executor.py 785, 796)
HandlerReady(t) == waiting[t] \in {"start", "pause"} /\ woken[t]

\* The request loop takes a line from the queue (main.py 299-315): it has
\* not left, no task holds the event loop and a line is there.  The ready
\* queue of the event loop is first-in first-out: once the loop has
\* suspended in wait_for (302-304) the tasks a handler made ready run
\* before it gets its next line (`drain`).  It is not suspended at all
\* when the next line is already queued and wait_for returns at once.
Dispatching == ~exited /\ cur = 0 /\ nreq < MaxReqs /\ ~drain /\ ~stdin_eof

\* after send_response the loop tests the running flag (main.py 299)
LoopTest ==
    /\ exited' = ~running'
    /\ drain' = FALSE
    /\ UNCHANGED <<envVars, discVars, loaderVars>>

\* a task runs, so the request loop is suspended: it stays so while a task
\* made ready by a handler has not run
LoopSuspended ==
    /\ drain' = \E u \in Tasks : waiting'[u] \in {"start", "pause"} /\ woken'[u]
    /\ UNCHANGED <<exited, envVars, discVars, loaderVars>>

\* the id of the request line being handled: the host numbers its requests
RequestId == nreq + 1

\* one line is taken from the queue and send_response (main.py 75-77)
\* writes one response to it, with the given id and result execution_id
RespondResult(m, c, id, xid) ==
    /\ nreq' = nreq + 1
    /\ nresp' = nresp + 1
    /\ lastResp' = [method |-> m, code |-> c, id |-> id, execution_id |-> xid]

\* a response whose result has no execution_id
RespondId(m, c, id) == RespondResult(m, c, id, 0)

\* a response that carries no id
RespondNull(m, c) == RespondId(m, c, 0)

\* JsonRpcResponse.success(request_id, ...) / error_response(request_id, ...)
\* as every handler builds it (main.py 100-114, 122, 155, 182, 203, 221 ...)
Respond(m, c) == RespondId(m, c, RequestId)

\* ---------------------------------------------------------------------
\* ConnectorExecutor control methods (executor.py 779-798).  Each one is
\* written over the executor fields it may touch and the waiters it wakes.

\* a pause that also requests abort
pauseAborts(e) ==
    /\ pause_event' = [pause_event EXCEPT ![e] = FALSE]
    /\ state' = [state EXCEPT ![e] = "paused"]
    /\ abort_requested' = [abort_requested EXCEPT ![e] = TRUE]
    /\ UNCHANGED <<step_event, woken>>

\* pause (executor.py 779-782): clears the latch and sets PAUSED, whatever
\* the current state is.
pause(e) ==
    /\ pause_event' = [pause_event EXCEPT ![e] = FALSE]
    /\ state' = [state EXCEPT ![e] = "paused"]
    /\ UNCHANGED <<step_event, abort_requested, woken>>

\* resume (executor.py 784-788)
resume(e) ==
    /\ pause_event' = [pause_event EXCEPT ![e] = TRUE]
    /\ woken' = WakeWaiters(e, {"pause"})
    /\ state' = [state EXCEPT ![e] = IF state[e] = "paused" THEN "running" ELSE state[e]]
    /\ UNCHANGED <<step_event, abort_requested>>

\* step (executor.py 790-792)
step(e) ==
    /\ step_event' = [step_event EXCEPT ![e] = TRUE]
    /\ woken' = WakeWaiters(e, {"step"})
    /\ UNCHANGED <<state, pause_event, abort_requested>>

\* an abort that releases a paused execution the way resume does
abortResumes(e) ==
    /\ abort_requested' = [abort_requested EXCEPT ![e] = TRUE]
    /\ pause_event' = [pause_event EXCEPT ![e] = TRUE]
    /\ step_event' = [step_event EXCEPT ![e] = TRUE]
    /\ woken' = WakeWaiters(e, {"pause", "step"})
    /\ state' = [state EXCEPT ![e] = IF state[e] = "paused" THEN "running" ELSE state[e]]

\* abort (executor.py 794-798)
abort(e) ==
    /\ abort_requested' = [abort_requested EXCEPT ![e] = TRUE]
    /\ pause_event' = [pause_event EXCEPT ![e] = TRUE]
    /\ step_event' = [step_event EXCEPT ![e] = TRUE]
    /\ woken' = WakeWaiters(e, {"pause", "step"})
    /\ UNCHANGED state

\* ---------------------------------------------------------------------
\* Request handlers of WorkerServer.

\* an execute handler that lets the new task run before it returns: the
\* task's phase_start(get_data) is on stdout before the response
HandleExecuteTaskFirst(name, sm) ==
    /\ Dispatching
    /\ name # ""
    /\ nexec < MaxExec
    /\ nexec' = nexec + 1
    /\ executor' = nexec + 1
    /\ pc' = [pc EXCEPT ![nexec + 1] = "created"]
    /\ cfg' = [cfg EXCEPT ![nexec + 1] = [connector |-> name, step_mode |-> sm]]
    /\ waiting' = [waiting EXCEPT ![nexec + 1] = "start"]
    /\ woken' = [woken EXCEPT ![nexec + 1] = TRUE]
    /\ events' = [events EXCEPT ![nexec + 1] = <<PhaseStart("get_data")>>]
    /\ RespondResult("execute", "OK", RequestId, execution_id[nexec + 1])
    /\ UNCHANGED <<running, cur, ex, idx, nrec>>
    /\ LoopTest
    /\ UNCHANGED <<execVars, histVars, fetched, trComplete, trError>>

\* _handle_execute (main.py 174-206).  name = "" is a missing 'connector'
\* parameter.  Otherwise a new ConnectorExecutor replaces the handle and a
\* task for _run_execution is created; the task has not run yet when the
\* response is returned, so the execution_id the response reads from the
\* new executor object (198, 205) is the one its constructor left
\* (executor.py 64): execute() assigns the identifier only when the task
\* runs (executor.py 97).
HandleExecute(name, sm) ==
    /\ Dispatching
    /\ IF name = ""
       THEN /\ Respond("execute", "INVALID_PARAMS")
            /\ UNCHANGED <<running, executor, nexec, cur>>
            /\ LoopTest
            /\ UNCHANGED <<execVars, taskVars, histVars, noteVars>>
       ELSE /\ nexec < MaxExec
            /\ nexec' = nexec + 1
            /\ executor' = nexec + 1
            /\ pc' = [pc EXCEPT ![nexec + 1] = "created"]
            /\ cfg' = [cfg EXCEPT ![nexec + 1] = [connector |-> name, step_mode |-> sm]]
            /\ waiting' = [waiting EXCEPT ![nexec + 1] = "start"]
            /\ woken' = [woken EXCEPT ![nexec + 1] = TRUE]
            /\ RespondResult("execute", "OK", RequestId, execution_id[nexec + 1])
            /\ UNCHANGED <<running, cur, ex, idx, nrec>>
            /\ LoopTest
            /\ UNCHANGED <<execVars, histVars, noteVars>>

\* _handle_execute with params that is not an object (a JSON array or
\* string): params.get (main.py 178) raises AttributeError before anything
\* is changed, and handle_request answers INTERNAL_ERROR (108-114)
HandleExecuteRaises ==
    /\ Dispatching
    /\ Respond("execute", "INTERNAL_ERROR")
    /\ UNCHANGED <<running, executor, nexec, cur>>
    /\ LoopTest
    /\ UNCHANGED <<execVars, taskVars, histVars, noteVars>>

\* a control handler that answers success without an executor object
NoExecutorAccepted(m) ==
    /\ Dispatching
    /\ executor = 0
    /\ Respond(m, "OK")
    /\ UNCHANGED <<running, executor, nexec, cur>>
    /\ LoopTest
    /\ UNCHANGED <<execVars, taskVars, histVars, noteVars>>

\* The guard shared by the four control handlers (main.py 220-225, 232-237,
\* 244-249, 256-261): without an executor object the answer is EXECUTION_ERROR.
NoExecutor(m) ==
    /\ Dispatching
    /\ executor = 0
    /\ Respond(m, "EXECUTION_ERROR")
    /\ UNCHANGED <<running, executor, nexec, cur>>
    /\ LoopTest
    /\ UNCHANGED <<execVars, taskVars, histVars, noteVars>>

\* _handle_pause (main.py 218-228)
HandlePause ==
    \/ NoExecutor("pause")
    \/ /\ Dispatching
       /\ executor # 0
       /\ pause(executor)
       /\ Respond("pause", "OK")
       /\ pauseAcc' = [pauseAcc EXCEPT ![executor] =
                            @ \/ (state[executor] = "running"
                                  /\ \E t \in Tasks : ex[t] = executor /\ pc[t] # "done")]
       /\ UNCHANGED <<running, executor, nexec, cur>>
       /\ LoopTest
       /\ UNCHANGED <<step_mode, execution_id, connector_info, total_records, successful_records, failed_records>>
       /\ UNCHANGED <<pc, ex, cfg, idx, nrec, waiting>>
       /\ UNCHANGED <<recEvents, completes, success, steps, noteVars>>

\* _handle_resume (main.py 230-240)
HandleResume ==
    \/ NoExecutor("resume")
    \/ /\ Dispatching
       /\ executor # 0
       /\ resume(executor)
       /\ Respond("resume", "OK")
       /\ pauseAcc' = [pauseAcc EXCEPT ![executor] = FALSE]
       /\ UNCHANGED <<running, executor, nexec, cur>>
       /\ LoopTest
       /\ UNCHANGED <<step_mode, execution_id, connector_info, total_records, successful_records, failed_records>>
       /\ UNCHANGED <<pc, ex, cfg, idx, nrec, waiting>>
       /\ UNCHANGED <<recEvents, completes, success, steps, noteVars>>

\* _handle_step (main.py 242-252)
HandleStep ==
    \/ NoExecutor("step")
    \/ /\ Dispatching
       /\ executor # 0
       /\ step(executor)
       /\ Respond("step", "OK")
       /\ steps' = [steps EXCEPT ![executor] = @ + 1]
       /\ UNCHANGED <<running, executor, nexec, cur>>
       /\ LoopTest
       /\ UNCHANGED <<step_mode, execution_id, connector_info, total_records, successful_records, failed_records>>
       /\ UNCHANGED <<pc, ex, cfg, idx, nrec, waiting>>
       /\ UNCHANGED <<recEvents, completes, success, pauseAcc, noteVars>>

\* _handle_abort (main.py 254-264)
HandleAbort ==
    \/ NoExecutor("abort")
    \/ /\ Dispatching
       /\ executor # 0
       /\ abort(executor)
       /\ Respond("abort", "OK")
       /\ pauseAcc' = [pauseAcc EXCEPT ![executor] = FALSE]
       /\ UNCHANGED <<running, executor, nexec, cur>>
       /\ LoopTest
       /\ UNCHANGED <<step_mode, execution_id, connector_info, total_records, successful_records, failed_records>>
       /\ UNCHANGED <<pc, ex, cfg, idx, nrec, waiting>>
       /\ UNCHANGED <<recEvents, completes, success, steps, noteVars>>

\* a handler whose exception also ends the worker
HandleDiscoveryCrashes(m) ==
    /\ Dispatching
    /\ \E raised \in BOOLEAN :
         /\ Respond(m, IF raised THEN "INTERNAL_ERROR" ELSE "OK")
         /\ running' = ~raised
    /\ UNCHANGED <<executor, nexec, cur>>
    /\ LoopTest
    /\ UNCHANGED <<execVars, taskVars, histVars, noteVars>>

\* _handle_initialize, _handle_discover (main.py 116-172): both walk the
\* project (discovery.py 51-125), which may raise (an unreadable
\* directory); handle_request turns that into INTERNAL_ERROR with the
\* request's id (main.py 108-114)
HandleDiscovery(m) ==
    /\ Dispatching
    /\ \E raised \in BOOLEAN : Respond(m, IF raised THEN "INTERNAL_ERROR" ELSE "OK")
    /\ UNCHANGED <<running, executor, nexec, cur>>
    /\ LoopTest
    /\ UNCHANGED <<execVars, taskVars, histVars, noteVars>>

\* any other method name (main.py 102-107)
HandleUnknown ==
    /\ Dispatching
    /\ Respond("unknown", "METHOD_NOT_FOUND")
    /\ UNCHANGED <<running, executor, nexec, cur>>
    /\ LoopTest
    /\ UNCHANGED <<execVars, taskVars, histVars, noteVars>>

\* the answer of the request loop to a line that is not routed (main.py
\* 317-353).  A line that json.loads rejects is answered PARSE_ERROR
\* without an id (318-328).  An object without "id" and an object with
\* "id" but without "method" are answered INVALID_REQUEST with
\* data.get("id") (331-339).  On a value that is not an object either
\* the `in` test raises (number, null, boolean) or data.get does (array,
\* string), or JsonRpcRequest.from_dict does (protocol.py 50-56); the
\* loop's handler answers INTERNAL_ERROR without an id (345-353).
InvalidLineResponse(shape) ==
    CASE shape = "not_json" -> [code |-> "PARSE_ERROR", id |-> 0]
      [] shape = "no_method" -> [code |-> "INVALID_REQUEST", id |-> RequestId]
      [] shape = "no_id" -> [code |-> "INVALID_REQUEST", id |-> 0]
      [] shape = "not_object" -> [code |-> "INTERNAL_ERROR", id |-> 0]

LineShapes == {"not_json", "no_method", "no_id", "not_object"}

HandleInvalidLine(shape) ==
    /\ Dispatching
    /\ RespondId("", InvalidLineResponse(shape).code, InvalidLineResponse(shape).id)
    /\ UNCHANGED <<running, executor, nexec, cur>>
    /\ LoopTest
    /\ UNCHANGED <<execVars, taskVars, histVars, noteVars>>

\* a shutdown that answers success and leaves the running flag set
HandleShutdownStillRunning ==
    /\ Dispatching
    /\ Respond("shutdown", "OK")
    /\ UNCHANGED <<running, executor, nexec, cur>>
    /\ LoopTest
    /\ UNCHANGED <<execVars, taskVars, histVars, noteVars>>

\* shutdown (main.py 99-101): clears the running flag; the request loop
\* leaves at its next test of the flag (main.py 299).
HandleShutdown ==
    /\ Dispatching
    /\ running' = FALSE
    /\ Respond("shutdown", "OK")
    /\ UNCHANGED <<executor, nexec, cur>>
    /\ LoopTest
    /\ UNCHANGED <<execVars, taskVars, histVars, noteVars>>

\* ---------------------------------------------------------------------
\* The execution task: _run_execution (main.py 208-216) running
\* ConnectorExecutor.execute (executor.py 91-178).  An action is the code
\* the task runs from one label to the next; it is taken either by the task
\* that holds the event loop or, when the loop is idle, by a suspended task
\* whose awaited future is resolved.

\* a resumed task that runs although another task holds the event loop
TurnPreempts(t) ==
    \/ cur = t
    \/ waiting[t] # "none" /\ woken[t]

Turn(t) ==
    \/ cur = t
    \/ cur = 0 /\ waiting[t] # "none" /\ woken[t]

\* the coroutine goes on without giving up the event loop
Continue(t) ==
    /\ cur' = t
    /\ waiting' = [waiting EXCEPT ![t] = "none"]
    /\ woken' = [woken EXCEPT ![t] = FALSE]

\* the coroutine suspends on `what`; `ready` tells whether the awaited
\* future is due to resolve by itself (timer, record stream)
Park(t, what, ready) ==
    /\ cur' = 0
    /\ waiting' = [waiting EXCEPT ![t] = what]
    /\ woken' = [woken EXCEPT ![t] = ready]

\* _wait_for_continue (executor.py 769-771): Event.wait() returns at once
\* when the latch is set, and suspends otherwise.
WaitForContinue(t, e) ==
    IF pause_event[e] THEN Continue(t) ELSE Park(t, "pause", FALSE)

\* _step_pause (executor.py 773-777): in step mode clear the gate and wait on it.
StepPause(t, e) ==
    IF step_mode[e]
    THEN /\ step_event' = [step_event EXCEPT ![e] = FALSE]
         /\ Park(t, "step", FALSE)
    ELSE /\ UNCHANGED step_event
         /\ Continue(t)

\* a record loop that does not look at the abort flag
LoopAbortCheckSkipped(e) == FALSE

\* the abort test at the top of every record-loop iteration
\* (executor.py 228-229, 294-295, 314-315, 561-562)
LoopAbortCheck(e) == abort_requested[e]

\* the coroutine's frame is gone once it has ended: the config and the
\* locals of execute and of the phase methods (mock_data, fetched_records, index)
DropLocals(t) ==
    /\ cfg' = [cfg EXCEPT ![t] = NoCfg]
    /\ idx' = [idx EXCEPT ![t] = 0]
    /\ nrec' = [nrec EXCEPT ![t] = 0]

\* a success field that only rules out the error state
CompleteSuccessNotError(st) == st # "error"

\* success field of execution_complete (executor.py 172)
CompleteSuccess(st) == st = "completed"

\* the finally block of execute (executor.py 166-178) with the executor in
\* state st: one execution_complete is written and the task ends.  wk is
\* the woken map the step leaves for the other tasks.
EmitComplete(t, st, wk) ==
    /\ completes' = [completes EXCEPT ![t] = @ + 1]
    /\ success' = [success EXCEPT ![t] = CompleteSuccess(st)]
    /\ pc' = [pc EXCEPT ![t] = "done"]
    /\ DropLocals(t)
    /\ cur' = 0
    /\ waiting' = [waiting EXCEPT ![t] = "none"]
    /\ woken' = [wk EXCEPT ![t] = FALSE]

\* an exception that ends the task without the state being set to ERROR
RaiseErrorKeepsState(t, e, wk) ==
    /\ UNCHANGED state
    /\ EmitComplete(t, state[e], wk)

\* an exception escapes the try block (executor.py 160-164), then finally
RaiseError(t, e, wk) ==
    /\ state' = [state EXCEPT ![e] = "error"]
    /\ EmitComplete(t, "error", wk)

\* execute returns with state ABORTED (executor.py 144-146, 151-153), then finally
ReturnAborted(t, e) ==
    /\ state' = [state EXCEPT ![e] = "aborted"]
    /\ EmitComplete(t, "aborted", woken)

\* First run of the task.  _run_execution reads the handle (main.py
\* 212-214) and enters execute on it (executor.py 97-103); the connector
\* is looked up by name (106-114: ValueError when no discovered class has
\* the name, else connector_info is set) and its class loaded (116-118,
\* discovery.py 256-286), which may raise.
StartTask(t) ==
    /\ Turn(t)
    /\ pc[t] = "created"
    /\ ex' = [ex EXCEPT ![t] = executor]
    /\ execution_id' = [execution_id EXCEPT ![executor] = t]
    /\ step_mode' = [step_mode EXCEPT ![executor] = cfg[t].step_mode]
    /\ step_event' = [step_event EXCEPT ![executor] = IF cfg[t].step_mode THEN @ ELSE TRUE]
    /\ connector_info' = [connector_info EXCEPT ![executor] =
                              IF cfg[t].connector = "Missing" THEN @ ELSE TRUE]
    /\ LET wk == IF cfg[t].step_mode THEN woken ELSE WakeWaiters(executor, {"step"})
       IN \E loaded \in BOOLEAN :
            IF cfg[t].connector = "Missing" \/ ~loaded
            THEN /\ RaiseError(t, executor, wk)
            ELSE /\ state' = [state EXCEPT ![executor] = "running"]
                 /\ pc' = [pc EXCEPT ![t] = "load_mock"]
                 /\ cur' = t
                 /\ waiting' = [waiting EXCEPT ![t] = "none"]
                 /\ woken' = [wk EXCEPT ![t] = FALSE]
                 /\ UNCHANGED <<cfg, idx, nrec, completes, success>>
    /\ UNCHANGED <<pause_event, abort_requested, total_records, successful_records, failed_records>>
    /\ UNCHANGED <<recEvents, steps, pauseAcc, noteVars>>
    /\ UNCHANGED workerVars
    /\ LoopSuspended

\* execute after the fetch phase with n fetched records, log being the
\* phase notifications written so far: the abort test (executor.py
\* 144-146), then _run_transform_phase up to its loop (541-557), which
\* writes phase_start before it builds the connector, whose constructor may
\* raise something _try_instantiate_connector does not catch (675-678
\* catches TypeError only).
AfterFetch(t, e, n, log) ==
    IF abort_requested[e]
    THEN /\ ReturnAborted(t, e)
         /\ events' = [events EXCEPT ![t] = log]
    ELSE /\ events' = [events EXCEPT ![t] = Append(log, PhaseStart("transform"))]
         /\ \E built \in BOOLEAN :
              IF built
              THEN /\ pc' = [pc EXCEPT ![t] = "tr_top"]
                   /\ idx' = [idx EXCEPT ![t] = 0]
                   /\ nrec' = [nrec EXCEPT ![t] = n]
                   /\ Continue(t)
                   /\ UNCHANGED <<state, completes, success, cfg>>
              ELSE RaiseError(t, e, woken)

\* execute after the transform phase: the abort test (executor.py
\* 151-153), then _run_upload_phase up to its simulated delay (619-636).
AfterTransform(t, e, log) ==
    IF abort_requested[e]
    THEN /\ ReturnAborted(t, e)
         /\ events' = [events EXCEPT ![t] = log]
    ELSE /\ events' = [events EXCEPT ![t] = Append(log, PhaseStart("post_to_index"))]
         /\ pc' = [pc EXCEPT ![t] = "up_done"]
         /\ Park(t, "sleep", TRUE)
         /\ UNCHANGED <<state, completes, success, cfg, idx, nrec>>

\* _load_mock_data (executor.py 120-129, 180-211) returns n records.  A
\* non-empty list starts the mock fetch phase (213-224).  An empty one
\* starts _run_real_fetch_phase (250-291), where
\*   "none"     no data client could be instantiated (269-281)
\*   "nomethod" the client has no get_source_data (286)
\*   "raise"    get_source_data() raised (332-334)
\*   "stream"   the client returned a stream of records
LoadMock(t) ==
    /\ Turn(t)
    /\ pc[t] = "load_mock"
    /\ \/ \E n \in 1..MaxRecords :
            /\ total_records' = [total_records EXCEPT ![ex[t]] = n]
            /\ events' = [events EXCEPT ![t] = Append(@, PhaseStart("get_data"))]
            /\ nrec' = [nrec EXCEPT ![t] = n]
            /\ idx' = [idx EXCEPT ![t] = 0]
            /\ pc' = [pc EXCEPT ![t] = "fetch_top"]
            /\ Continue(t)
            /\ UNCHANGED <<state, completes, success, cfg>>
       \/ /\ \E c \in {"nomethod", "raise", "stream"} :
                pc' = [pc EXCEPT ![t] = IF c = "stream" THEN "rfetch_next" ELSE "rfetch_done"]
          /\ events' = [events EXCEPT ![t] = Append(@, PhaseStart("get_data"))]
          /\ nrec' = [nrec EXCEPT ![t] = 0]
          /\ Continue(t)
          /\ UNCHANGED <<state, completes, success, cfg, idx, total_records>>
       \/ /\ AfterFetch(t, ex[t], 0,
                        events[t] \o <<PhaseStart("get_data"), PhaseComplete("get_data", 0)>>)
          /\ UNCHANGED total_records
    /\ UNCHANGED ex
    /\ UNCHANGED <<pause_event, step_event, abort_requested, step_mode, execution_id, connector_info,
                   successful_records, failed_records>>
    /\ UNCHANGED <<recEvents, steps, pauseAcc, fetched, trComplete, trError>>
    /\ UNCHANGED workerVars
    /\ LoopSuspended

\* _run_fetch_phase, loop head (executor.py 226-227)
FetchTop(t) ==
    /\ Turn(t)
    /\ pc[t] = "fetch_top"
    /\ IF idx[t] >= nrec[t]
       THEN /\ pc' = [pc EXCEPT ![t] = "fetch_done"]
            /\ Continue(t)
       ELSE /\ pc' = [pc EXCEPT ![t] = "fetch_check"]
            /\ WaitForContinue(t, ex[t])
    /\ UNCHANGED <<ex, cfg, idx, nrec>>
    /\ UNCHANGED <<workerVars, execVars, histVars, noteVars>>
    /\ LoopSuspended

\* _run_fetch_phase, loop body (executor.py 228-239): record_fetched, or
\* record.get (231) raises on a mock record that is not a JSON object
\* (_load_mock_data returns whatever list the file holds, 203-208) and the
\* exception leaves the phase
FetchCheck(t) ==
    /\ Turn(t)
    /\ pc[t] = "fetch_check"
    /\ IF LoopAbortCheck(ex[t])
       THEN /\ pc' = [pc EXCEPT ![t] = "fetch_done"]
            /\ Continue(t)
            /\ UNCHANGED <<idx, recEvents, fetched, step_event>>
            /\ UNCHANGED <<state, completes, success, cfg, nrec>>
       ELSE \/ /\ recEvents' = [recEvents EXCEPT ![t] = @ + 1]
               /\ fetched' = [fetched EXCEPT ![t] = @ + 1]
               /\ idx' = [idx EXCEPT ![t] = @ + 1]
               /\ pc' = [pc EXCEPT ![t] = "fetch_top"]
               /\ StepPause(t, ex[t])
               /\ UNCHANGED <<state, completes, success, cfg, nrec>>
            \/ /\ RaiseError(t, ex[t], woken)
               /\ UNCHANGED <<recEvents, fetched, step_event>>
    /\ UNCHANGED ex
    /\ UNCHANGED <<pause_event, abort_requested, step_mode, execution_id, connector_info,
                   total_records, successful_records, failed_records>>
    /\ UNCHANGED <<steps, pauseAcc, events, trComplete, trError>>
    /\ UNCHANGED workerVars
    /\ LoopSuspended

\* _run_fetch_phase, phase_complete with records_processed = len(mock_data)
\* (executor.py 241-248); execute goes on with fetched_records = mock_data (142)
FetchDone(t) ==
    /\ Turn(t)
    /\ pc[t] = "fetch_done"
    /\ AfterFetch(t, ex[t], nrec[t], Append(events[t], PhaseComplete("get_data", nrec[t])))
    /\ UNCHANGED ex
    /\ UNCHANGED <<pause_event, step_event, abort_requested, step_mode, execution_id, connector_info,
                   total_records, successful_records, failed_records>>
    /\ UNCHANGED <<recEvents, steps, pauseAcc, fetched, trComplete, trError>>
    /\ UNCHANGED workerVars
    /\ LoopSuspended

\* ask the stream for its next record (executor.py 292, 312); an
\* asynchronous stream may suspend the task while it produces it
RFetchNext(t) ==
    /\ Turn(t)
    /\ pc[t] = "rfetch_next"
    /\ pc' = [pc EXCEPT ![t] = "rfetch_got"]
    /\ \/ Continue(t)
       \/ Park(t, "anext", TRUE)
    /\ UNCHANGED <<ex, cfg, idx, nrec>>
    /\ UNCHANGED <<workerVars, execVars, histVars, noteVars>>
    /\ LoopSuspended

\* the stream answers: a record (then _wait_for_continue, 293 / 313), its
\* end (330), or an exception (332-334: total_records is not updated)
RFetchGot(t) ==
    /\ Turn(t)
    /\ pc[t] = "rfetch_got"
    /\ \/ /\ nrec[t] < MaxRecords
          /\ pc' = [pc EXCEPT ![t] = "rfetch_check"]
          /\ WaitForContinue(t, ex[t])
          /\ UNCHANGED total_records
       \/ /\ pc' = [pc EXCEPT ![t] = "rfetch_done"]
          /\ total_records' = [total_records EXCEPT ![ex[t]] = nrec[t]]
          /\ Continue(t)
       \/ /\ pc' = [pc EXCEPT ![t] = "rfetch_done"]
          /\ UNCHANGED total_records
          /\ Continue(t)
    /\ UNCHANGED <<ex, cfg, idx, nrec>>
    /\ UNCHANGED <<state, pause_event, step_event, abort_requested, step_mode, execution_id, connector_info,
                   successful_records, failed_records>>
    /\ UNCHANGED <<workerVars, histVars, noteVars>>
    /\ LoopSuspended

\* real fetch loop body (executor.py 294-309, 314-328): record_fetched
RFetchCheck(t) ==
    /\ Turn(t)
    /\ pc[t] = "rfetch_check"
    /\ IF LoopAbortCheck(ex[t])
       THEN /\ pc' = [pc EXCEPT ![t] = "rfetch_done"]
            /\ total_records' = [total_records EXCEPT ![ex[t]] = nrec[t]]
            /\ Continue(t)
            /\ UNCHANGED <<nrec, recEvents, fetched, step_event>>
       ELSE /\ recEvents' = [recEvents EXCEPT ![t] = @ + 1]
            /\ fetched' = [fetched EXCEPT ![t] = @ + 1]
            /\ nrec' = [nrec EXCEPT ![t] = @ + 1]
            /\ pc' = [pc EXCEPT ![t] = "rfetch_next"]
            /\ StepPause(t, ex[t])
            /\ UNCHANGED total_records
    /\ UNCHANGED <<ex, cfg, idx>>
    /\ UNCHANGED <<state, pause_event, abort_requested, step_mode, execution_id, connector_info,
                   successful_records, failed_records>>
    /\ UNCHANGED <<completes, success, steps, pauseAcc, events, trComplete, trError>>
    /\ UNCHANGED workerVars
    /\ LoopSuspended

\* real fetch phase_complete with records_processed = len(fetched_records)
\* (executor.py 336-346); execute goes on with the records fetched (136-138)
RFetchDone(t) ==
    /\ Turn(t)
    /\ pc[t] = "rfetch_done"
    /\ AfterFetch(t, ex[t], nrec[t], Append(events[t], PhaseComplete("get_data", nrec[t])))
    /\ UNCHANGED ex
    /\ UNCHANGED <<pause_event, step_event, abort_requested, step_mode, execution_id, connector_info,
                   total_records, successful_records, failed_records>>
    /\ UNCHANGED <<recEvents, steps, pauseAcc, fetched, trComplete, trError>>
    /\ UNCHANGED workerVars
    /\ LoopSuspended

\* transform loop head (executor.py 559-560)
TrTop(t) ==
    /\ Turn(t)
    /\ pc[t] = "tr_top"
    /\ IF idx[t] >= nrec[t]
       THEN /\ pc' = [pc EXCEPT ![t] = "tr_done"]
            /\ Continue(t)
       ELSE /\ pc' = [pc EXCEPT ![t] = "tr_check"]
            /\ WaitForContinue(t, ex[t])
    /\ UNCHANGED <<ex, cfg, idx, nrec>>
    /\ UNCHANGED <<workerVars, execVars, histVars, noteVars>>
    /\ LoopSuspended

\* a transform_error that is not counted
TransformFailedUncounted(t, e) ==
    /\ trError' = [trError EXCEPT ![t] = @ + 1]
    /\ UNCHANGED <<successful_records, failed_records, trComplete>>

\* user transform code raised: the failed counter and transform_error
\* (executor.py 594-605)
TransformFailed(t, e) ==
    /\ failed_records' = [failed_records EXCEPT ![e] = @ + 1]
    /\ trError' = [trError EXCEPT ![t] = @ + 1]
    /\ UNCHANGED <<successful_records, trComplete>>

\* the record was transformed: transform_complete and the successful
\* counter (executor.py 581-592)
TransformSucceeded(t, e) ==
    /\ successful_records' = [successful_records EXCEPT ![e] = @ + 1]
    /\ trComplete' = [trComplete EXCEPT ![t] = @ + 1]
    /\ UNCHANGED <<failed_records, trError>>

\* transform loop body (executor.py 561-607): the record is transformed
\* or user code raises; either way the loop goes on with _step_pause (607)
TrCheck(t) ==
    /\ Turn(t)
    /\ pc[t] = "tr_check"
    /\ IF LoopAbortCheck(ex[t])
       THEN /\ pc' = [pc EXCEPT ![t] = "tr_done"]
            /\ Continue(t)
            /\ UNCHANGED <<idx, recEvents, step_event, successful_records, failed_records>>
            /\ UNCHANGED <<trComplete, trError>>
       ELSE /\ \/ TransformSucceeded(t, ex[t])
               \/ TransformFailed(t, ex[t])
            /\ recEvents' = [recEvents EXCEPT ![t] = @ + 1]
            /\ idx' = [idx EXCEPT ![t] = @ + 1]
            /\ pc' = [pc EXCEPT ![t] = "tr_top"]
            /\ StepPause(t, ex[t])
    /\ UNCHANGED <<ex, cfg, nrec>>
    /\ UNCHANGED <<state, pause_event, abort_requested, step_mode, execution_id, connector_info, total_records>>
    /\ UNCHANGED <<completes, success, steps, pauseAcc, events, fetched>>
    /\ UNCHANGED workerVars
    /\ LoopSuspended

\* records_processed of phase_complete(transform) (executor.py 613)
TransformProcessed(e) == successful_records[e] + failed_records[e]

\* transform phase_complete (executor.py 609-617); execute goes on
TrDone(t) ==
    /\ Turn(t)
    /\ pc[t] = "tr_done"
    /\ AfterTransform(t, ex[t],
                      Append(events[t], PhaseComplete("transform", TransformProcessed(ex[t]))))
    /\ UNCHANGED ex
    /\ UNCHANGED <<pause_event, step_event, abort_requested, step_mode, execution_id, connector_info,
                   total_records, successful_records, failed_records>>
    /\ UNCHANGED <<recEvents, steps, pauseAcc, fetched, trComplete, trError>>
    /\ UNCHANGED workerVars
    /\ LoopSuspended

\* after the upload delay: phase_complete (executor.py 638-645), state
\* COMPLETED (158), then finally (166-178)
UpDone(t) ==
    /\ Turn(t)
    /\ pc[t] = "up_done"
    /\ events' = [events EXCEPT ![t] =
                     Append(@, PhaseComplete("post_to_index", successful_records[ex[t]]))]
    /\ state' = [state EXCEPT ![ex[t]] = "completed"]
    /\ EmitComplete(t, "completed", woken)
    /\ UNCHANGED ex
    /\ UNCHANGED <<pause_event, step_event, abort_requested, step_mode, execution_id, connector_info,
                   total_records, successful_records, failed_records>>
    /\ UNCHANGED <<recEvents, steps, pauseAcc, fetched, trComplete, trError>>
    /\ UNCHANGED workerVars
    /\ LoopSuspended

\* a worker that ends without cancelling the tasks still pending
CancelSkipped(t) ==
    /\ exited
    /\ cur = 0
    /\ waiting[t] # "none"
    /\ pc[t] # "created"
    /\ UNCHANGED vars

\* Once the request loop has left (main.py 299) run() cancels and awaits
\* the watchdog (354-360): a task created but not yet run gets its first
\* run there.  Then run() returns and asyncio.run (main.py 397) cancels
\* every task still pending: the task gets CancelledError at its await,
\* which `except Exception` (executor.py 160) does not catch; the finally
\* block (166-178) still runs, with the state left as it is.
Cancel(t) ==
    /\ exited
    /\ cur = 0
    /\ waiting[t] # "none"
    /\ pc[t] # "created"
    /\ EmitComplete(t, state[ex[t]], woken)
    /\ UNCHANGED <<ex, recEvents, steps, pauseAcc, noteVars>>
    /\ UNCHANGED <<workerVars, execVars>>
    /\ LoopSuspended

\* ---------------------------------------------------------------------
TaskStep(t) ==
    \/ StartTask(t)
    \/ LoadMock(t)
    \/ FetchTop(t)
    \/ FetchCheck(t)
    \/ FetchDone(t)
    \/ RFetchNext(t)
    \/ RFetchGot(t)
    \/ RFetchCheck(t)
    \/ RFetchDone(t)
    \/ TrTop(t)
    \/ TrCheck(t)
    \/ TrDone(t)
    \/ UpDone(t)
    \/ Cancel(t)

Request ==
    \/ \E name \in {"", "Known", "Missing"}, sm \in BOOLEAN : HandleExecute(name, sm)
    \/ HandleExecuteRaises
    \/ HandlePause
    \/ HandleResume
    \/ HandleStep
    \/ HandleAbort
    \/ HandleShutdown
    \/ \E m \in {"initialize", "discover"} : HandleDiscovery(m)
    \/ HandleUnknown
    \/ \E shape \in LineShapes : HandleInvalidLine(shape)

Next ==
    \/ Request
    \/ \E t \in Tasks : TaskStep(t)

Spec == Init /\ [][Next]_vars

\* ---------------------------------------------------------------------
\* The worker's life cycle: what ends the request loop besides shutdown.

\* the handler installed for SIGTERM and SIGINT (main.py 44-51) clears the
\* running flag whenever the signal arrives
SignalHandler ==
    /\ running
    /\ running' = FALSE
    /\ UNCHANGED <<executor, nexec, nreq, nresp, lastResp, cur>>
    /\ UNCHANGED <<execVars, taskVars, histVars, noteVars>>
    /\ UNCHANGED <<exited, drain, envVars, discVars, loaderVars>>

\* the parent process goes away: os.getppid() no longer returns the
\* identifier recorded at startup (main.py 40, 53-63)
ParentDies ==
    /\ parent_alive
    /\ parent_alive' = FALSE
    /\ UNCHANGED stdin_eof
    /\ UNCHANGED <<workerVars, cur, execVars, taskVars, histVars, noteVars>>
    /\ UNCHANGED <<exited, drain, discVars, loaderVars>>

\* a watchdog that never finds the parent gone
WatchdogCheckBlind ==
    /\ running /\ ~exited /\ cur = 0
    /\ ~parent_alive
    /\ UNCHANGED vars

\* _parent_watchdog (main.py 364-370) wakes from its sleep, finds the
\* parent gone and clears the running flag.  The watchdog is a task of the
\* event loop (273) and is cancelled once the request loop has left (356).
WatchdogCheck ==
    /\ running /\ ~exited /\ cur = 0
    /\ ~parent_alive
    /\ running' = FALSE
    /\ UNCHANGED <<executor, nexec, nreq, nresp, lastResp, cur>>
    /\ UNCHANGED <<execVars, taskVars, histVars, noteVars>>
    /\ UNCHANGED <<exited, drain, envVars, discVars, loaderVars>>

\* a request loop that waits for its next line without a timeout: it
\* tests the flag only once the input has ended
LoopPollBlocks ==
    /\ ~running /\ ~exited /\ cur = 0
    /\ stdin_eof
    /\ exited' = TRUE
    /\ UNCHANGED <<workerVars, cur, execVars, taskVars, histVars, noteVars>>
    /\ UNCHANGED <<drain, envVars, discVars, loaderVars>>

\* wait_for times out after one second with no line (main.py 302-306);
\* the loop tests the running flag (299) and leaves
LoopPoll ==
    /\ ~running /\ ~exited /\ cur = 0
    /\ exited' = TRUE
    /\ UNCHANGED <<workerVars, cur, execVars, taskVars, histVars, noteVars>>
    /\ UNCHANGED <<drain, envVars, discVars, loaderVars>>

\* the reader thread reads end of input and queues None (main.py 283-289)
ReaderEof ==
    /\ ~stdin_eof /\ ~exited
    /\ stdin_eof' = TRUE
    /\ UNCHANGED parent_alive
    /\ UNCHANGED <<workerVars, cur, execVars, taskVars, histVars, noteVars>>
    /\ UNCHANGED <<exited, drain, discVars, loaderVars>>

\* the request loop takes None from the queue and breaks (main.py 308-311)
EofDequeued ==
    /\ stdin_eof /\ ~exited /\ cur = 0
    /\ exited' = TRUE
    /\ UNCHANGED <<workerVars, cur, execVars, taskVars, histVars, noteVars>>
    /\ UNCHANGED <<drain, envVars, discVars, loaderVars>>

\* the requests of a host that sends at most MaxLifeReqs lines
LifeRequest ==
    \/ \E name \in {"", "Known", "Missing"}, sm \in BOOLEAN :
         nreq < MaxLifeReqs /\ HandleExecute(name, sm)
    \/ nreq < MaxLifeReqs /\ HandleExecuteRaises
    \/ nreq < MaxLifeReqs /\ HandlePause
    \/ nreq < MaxLifeReqs /\ HandleResume
    \/ nreq < MaxLifeReqs /\ HandleStep
    \/ nreq < MaxLifeReqs /\ HandleAbort
    \/ nreq < MaxLifeReqs /\ HandleShutdown
    \/ \E m \in {"initialize", "discover"} : nreq < MaxLifeReqs /\ HandleDiscovery(m)
    \/ nreq < MaxLifeReqs /\ HandleUnknown
    \/ \E shape \in LineShapes : nreq < MaxLifeReqs /\ HandleInvalidLine(shape)

LifeNext ==
    \/ LifeRequest
    \/ \E t \in Tasks : TaskStep(t)
    \/ SignalHandler
    \/ ParentDies
    \/ WatchdogCheck
    \/ LoopPoll
    \/ ReaderEof
    \/ EofDequeued

\* The event loop runs every callback that is ready: the timers of wait_for
\* (1 s) and of the watchdog's sleep (2 s) expire, a task whose future is
\* resolved is resumed, a queued None is taken, and asyncio.run cancels
\* the tasks left when run() has returned.
LifeFairness ==
    /\ WF_vars(LoopPoll)
    /\ WF_vars(WatchdogCheck)
    /\ WF_vars(EofDequeued)
    /\ \A t \in Tasks : WF_vars(TaskStep(t))

LifeSpec == Init /\ [][LifeNext]_vars /\ LifeFairness

\* ---------------------------------------------------------------------
\* Discovery: ProjectDiscovery.discover_connectors (discovery.py 78-124),
\* _parse_file_for_connectors (169-185) and _categorize_and_link (126-167).
\*
\* A base-class name (_get_base_name, 207-218) is a sequence of words, so
\* that `"DataClient" in bc` is the test whether the word occurs in it.
BaseNames ==
    {<<"Base", "Connector">>, <<"Base", "DataClient">>,
     <<"Custom", "DataSource">>, <<"Generic">>}

\* `word in bc` (discovery.py 134, 137)
Contains(bc, word) == \E i \in 1..Len(bc) : bc[i] = word

\* sequences over S of length at most n
SeqUpTo(S, n) == UNION {[1..k -> S] : k \in 0..n}

\* source_type as _extract_type_parameter returns it (249-254): "" is None
SourceTypes == {"", "DocA", "DocB"}

\* ConnectorInfo as _extract_connector_info builds it (discovery.py
\* 220-247) for the class named i: category and data_clients hold the
\* defaults of the dataclass (27-30)
ClassInfo(i, bases, st) ==
    [class_name |-> i, base_classes |-> bases, source_type |-> st,
     category |-> "connector", data_clients |-> <<>>]

\* what read_text and ast.parse do with a file (discovery.py 173-177):
\* "ok", a SyntaxError, or another exception (UnicodeDecodeError of
\* read_text, ValueError of ast.parse for a null byte)
ParseOutcomes == {"ok", "SyntaxError", "Exception"}

\* the files a project can hold that pass the path filter (101-111): a file
\* that parses holds at most MaxClasses classes that _is_connector_class
\* accepts (187-205), every class described by its bases and its type
\* parameter; the content of a file that does not parse plays no part
FileContents ==
    {[parse |-> "ok", classes |-> c] :
        c \in SeqUpTo(SeqUpTo(BaseNames, MaxBases) \X SourceTypes, MaxClasses)}
    \cup {[parse |-> o, classes |-> <<>>] : o \in ParseOutcomes \ {"ok"}}

\* the project tree of n files with contents f: each file carries its
\* path, the position k it has in the tree
TreeOf(f, n) ==
    [k \in 1..n |-> [path |-> k, parse |-> f[k].parse, classes |-> f[k].classes]]

\* the name of the j-th class of file f: (file_path, class_name) is the key
\* of the class (discovery.py 116)
ClassName(f, j) == f.path * 10 + j

\* _parse_file_for_connectors (discovery.py 169-185): a SyntaxError gives
\* the empty list (176-177), another exception leaves the function
ParseFileForConnectors(f) ==
    IF f.parse = "SyntaxError" THEN [raised |-> FALSE, found |-> <<>>]
    ELSE IF f.parse = "Exception" THEN [raised |-> TRUE, found |-> <<>>]
    ELSE [raised |-> FALSE,
          found |-> [j \in 1..Len(f.classes) |->
                        ClassInfo(ClassName(f, j), f.classes[j][1], f.classes[j][2])]]

\* the files the three search paths yield (discovery.py 88-98): rglob of
\* the project directory reaches every file, rglob of src/ reaches the
\* files under src/ once more
Walk(tr, lay) == IF lay = "src" THEN tr \o tr ELSE tr

\* the classes of found whose key is not in seen, appended to acc
\* (discovery.py 115-119)
RECURSIVE AppendUnseen(_, _)
AppendUnseen(acc, found) ==
    IF found = <<>> THEN acc
    ELSE LET c == Head(found)
             seen == {acc[i].class_name : i \in 1..Len(acc)}
         IN AppendUnseen(IF c.class_name \in seen THEN acc ELSE Append(acc, c),
                         Tail(found))

\* a visit that lets the exception of a file leave discover_connectors
VisitFileUncaught(acc, f) ==
    LET r == ParseFileForConnectors(f)
    IN IF acc.raised THEN acc
       ELSE IF r.raised THEN [acc EXCEPT !.raised = TRUE]
       ELSE [acc EXCEPT !.classes = AppendUnseen(acc.classes, r.found)]

\* one pass of the loop body (discovery.py 113-121): the exception of a
\* file is logged and the loop goes on
VisitFile(acc, f) ==
    LET r == ParseFileForConnectors(f)
    IN IF acc.raised THEN acc
       ELSE IF r.raised THEN acc
       ELSE [acc EXCEPT !.classes = AppendUnseen(acc.classes, r.found)]

\* the loops of discover_connectors (discovery.py 94-121)
RECURSIVE Collect(_, _)
Collect(acc, walk) ==
    IF walk = <<>> THEN acc
    ELSE Collect(VisitFile(acc, Head(walk)), Tail(walk))

\* a categorisation that finds no data client
IsDataClientNever(info) == FALSE

\* is_data_client (discovery.py 133-135)
IsDataClient(info) ==
    \E i \in 1..Len(info.base_classes) : Contains(info.base_classes[i], "DataClient")

\* is_connector (discovery.py 136-139)
IsConnector(info) ==
    /\ \E i \in 1..Len(info.base_classes) :
          Contains(info.base_classes[i], "Connector") \/ Contains(info.base_classes[i], "DataSource")
    /\ ~IsDataClient(info)

\* the category the first loop assigns (discovery.py 141-150)
Categorize(info) ==
    [info EXCEPT !.category =
        IF IsDataClient(info) THEN "data_client"
        ELSE IF IsConnector(info) THEN "connector"
        ELSE "connector"]

\* a map that lists every data client under every source type
ClientsOfAnyType(dcs, st) ==
    [i \in 1..Len(dcs) |-> dcs[i].class_name]

\* source_type_to_clients[st] (discovery.py 153-158): the class names of
\* the data clients of source type st, in order
ClientsOf(dcs, st) ==
    LET Matches(dc) == dc.source_type = st
        sel == SelectSeq(dcs, Matches)
    IN [i \in 1..Len(sel) |-> sel[i].class_name]

\* _categorize_and_link (discovery.py 126-167)
CategorizeAndLink(cs) ==
    LET cat == [i \in 1..Len(cs) |-> Categorize(cs[i])]
        IsClient(info) == info.category = "data_client"
        IsConn(info) == info.category # "data_client"
        data_clients == SelectSeq(cat, IsClient)
        connectors == SelectSeq(cat, IsConn)
        Link(conn) ==
            IF conn.source_type # "" /\ ClientsOf(data_clients, conn.source_type) # <<>>
            THEN [conn EXCEPT !.data_clients = ClientsOf(data_clients, conn.source_type)]
            ELSE conn
    IN [i \in 1..Len(connectors) |-> Link(connectors[i])]

\* discover_connectors as a function of the tree (discovery.py 78-124)
Discover(tr, lay) ==
    LET got == Collect([raised |-> FALSE, classes |-> <<>>], Walk(tr, lay))
    IN [called |-> TRUE, raised |-> got.raised, classes |-> got.classes,
        list |-> IF got.raised THEN <<>> ELSE CategorizeAndLink(got.classes)]

\* a project directory holding the files of tree
DiscInit ==
    /\ InitWorker
    /\ \E n \in 0..MaxFiles : \E f \in [1..n -> FileContents] : tree = TreeOf(f, n)
    /\ layout \in {"flat", "src"}
    /\ all_classes = <<>>
    /\ returned = NotReturned
    /\ InitLoader

\* discover_connectors (discovery.py 78-124) returns what
\* _categorize_and_link makes of the classes found
DiscoverConnectors ==
    /\ ~returned.called
    /\ LET d == Discover(tree, layout)
       IN /\ all_classes' = d.classes
          /\ returned' = [called |-> TRUE, raised |-> d.raised, list |-> d.list]
    /\ UNCHANGED <<tree, layout, loaderVars>>
    /\ UNCHANGED <<workerVars, cur, execVars, taskVars, histVars, noteVars>>
    /\ UNCHANGED <<exited, drain, envVars>>

DiscNext == DiscoverConnectors

DiscSpec == DiscInit /\ [][DiscNext]_vars

\* ---------------------------------------------------------------------
\* Data-client instantiation: ConnectorExecutor._try_instantiate_data_client
\* (executor.py 483-539).
\*
\* A data-client class is described by the parameters of its __init__
\* other than self, by the set of those that have a default, by whether
\* the constructor raises when it is handed None, and by whether
\* inspect.signature fails on it (488-493).
ClientClasses ==
    {[params |-> ps, defaults |-> ds, rejects_none |-> rn, sig_fails |-> sf] :
        ps \in {q \in SeqUpTo(ParamNames, MaxParams) :
                   \A i, j \in 1..Len(q) : i # j => q[i] # q[j]},
        ds \in SUBSET ParamNames, rn \in BOOLEAN, sf \in BOOLEAN}

\* the environment variables that can be set
EnvKeys == {"TOKEN", "BASE_URL", "API_URL"}

\* the variables tried for a URL-like parameter, in order (executor.py 518)
UrlEnvVars == <<"BASE_URL", "API_URL">>

\* param.upper() (executor.py 510)
Upper(p) == IF p = "url" THEN "URL" ELSE IF p = "token" THEN "TOKEN" ELSE "LOGGER"

\* the parameters inspect.signature yields (executor.py 488-493)
Params(c) == IF c.sig_fails THEN {} ELSE {c.params[i] : i \in 1..Len(c.params)}

\* no keyword argument
NoKwargs == [p \in ParamNames |-> "absent"]

\* the keyword arguments collected from the environment (executor.py
\* 504-523): the value of a variable is written as the variable's name
EnvKwargs(c, env) ==
    [p \in ParamNames |->
        IF p \notin Params(c) THEN "absent"
        ELSE IF Upper(p) \in env THEN Upper(p)
        ELSE IF p = "url"
             THEN IF \E i \in 1..Len(UrlEnvVars) : UrlEnvVars[i] \in env
                  THEN UrlEnvVars[CHOOSE i \in 1..Len(UrlEnvVars) :
                                      /\ UrlEnvVars[i] \in env
                                      /\ \A j \in 1..(i - 1) : UrlEnvVars[j] \notin env]
                  ELSE "absent"
        ELSE IF p = "logger" THEN "None"
        ELSE "absent"]

\* {p: None for p in params} (executor.py 534)
NoneKwargs(c) == [p \in ParamNames |-> IF p \in Params(c) THEN "None" ELSE "absent"]

\* client_class(**kwargs): a TypeError when a parameter without default is
\* not given, the constructor's own exception when it rejects None, else
\* the instance, described by what each parameter was bound to
Call(c, kwargs) ==
    LET actual == {c.params[i] : i \in 1..Len(c.params)}
        missing == \E p \in actual : kwargs[p] = "absent" /\ p \notin c.defaults
        none == c.rejects_none /\ \E p \in actual : kwargs[p] = "None"
    IN IF missing \/ none
       THEN [raised |-> TRUE, obj |-> NoKwargs]
       ELSE [raised |-> FALSE,
             obj |-> [p \in ParamNames |->
                         IF p \notin actual THEN "absent"
                         ELSE IF kwargs[p] = "absent" THEN "default"
                         ELSE kwargs[p]]]

\* _try_instantiate_data_client (executor.py 483-539)
TryInstantiateDataClient(c, env) ==
    LET s1 == Call(c, NoKwargs)
        kw == EnvKwargs(c, env)
        s2 == Call(c, kw)
        s3 == Call(c, NoneKwargs(c))
    IN IF Params(c) = {} /\ ~s1.raised THEN s1
       ELSE IF kw # NoKwargs /\ ~s2.raised THEN s2
       ELSE s3

\* a data-client class and an environment
InstInit ==
    /\ InitWorker
    /\ InitDiscovery
    /\ client_class \in {c \in ClientClasses :
                            c.defaults \subseteq {c.params[i] : i \in 1..Len(c.params)}}
    /\ environ \in SUBSET EnvKeys
    /\ instance = NotInstantiated
    /\ InitMock

\* the executor instantiates the data client (executor.py 370, 475)
InstantiateDataClient ==
    /\ ~instance.called
    /\ LET r == TryInstantiateDataClient(client_class, environ)
       IN instance' = [called |-> TRUE, raised |-> r.raised, obj |-> r.obj]
    /\ UNCHANGED <<client_class, environ, mock_file, fetch_plan>>
    /\ UNCHANGED <<workerVars, cur, execVars, taskVars, histVars, noteVars>>
    /\ UNCHANGED <<exited, drain, envVars, discVars>>

InstNext == InstantiateDataClient

InstSpec == InstInit /\ [][InstNext]_vars

\* ---------------------------------------------------------------------
\* Mock data: ConnectorExecutor._load_mock_data (executor.py 180-211) and
\* the choice of the fetch path in execute (120-142).
\*
\* where the mock data file lies: the explicit mock_data_path of the
\* request (182-183), or one of the names discover_project looks for in the
\* project directory (discovery.py 61-66), or nowhere
MockSources == {"explicit", "mock_data.json", "test_data.json", ".mock_data.json", "none"}

\* the records a file can hold
RecordIds == {"a", "b"}

\* what the file holds: a JSON list of records, an object whose key
\* `records` holds the list, another object (the one record of the file),
\* or text that json.load rejects
MockFiles ==
    {[source |-> src, shape |-> sh, records |-> rs] :
        src \in MockSources \ {"none"}, sh \in {"list", "records"},
        rs \in SeqUpTo(RecordIds, MaxRecords)}
    \cup {[source |-> src, shape |-> "object", records |-> <<r>>] :
            src \in MockSources \ {"none"}, r \in RecordIds}
    \cup {[source |-> src, shape |-> "invalid", records |-> <<>>] :
            src \in MockSources \ {"none"}}
    \cup {NoMockFile}

\* _load_mock_data (executor.py 180-211)
LoadMockData(f) ==
    IF f.source = "none" THEN <<>>
    ELSE IF f.shape = "invalid" THEN <<>>
    ELSE f.records

\* use_real_data (executor.py 122-129): `if mock_data:` is the test
UseRealData(mock_data) == mock_data = <<>>

\* the fetch path of execute (executor.py 120-142): the records of the mock
\* fetch phase, or the real fetch phase
FetchPlan(f) ==
    LET mock_data == LoadMockData(f)
    IN IF UseRealData(mock_data)
       THEN [called |-> TRUE, path |-> "real", records |-> <<>>]
       ELSE [called |-> TRUE, path |-> "mock", records |-> mock_data]

\* a project with or without a mock data file
MockInit ==
    /\ InitWorker
    /\ InitDiscovery
    /\ InitInstance
    /\ mock_file \in MockFiles
    /\ fetch_plan = NotPlanned

\* execute loads the mock data and chooses the fetch path
ChooseFetchPath ==
    /\ ~fetch_plan.called
    /\ fetch_plan' = FetchPlan(mock_file)
    /\ UNCHANGED <<client_class, environ, instance, mock_file>>
    /\ UNCHANGED <<workerVars, cur, execVars, taskVars, histVars, noteVars>>
    /\ UNCHANGED <<exited, drain, envVars, discVars>>

MockNext == ChooseFetchPath

MockSpec == MockInit /\ [][MockNext]_vars

\* =====================================================================
\* Properties

\* a task that was created and has not ended
Live(t) == pc[t] \notin {"none", "done"}

\* the step is the dispatch of one request of method m
Handled(m) == nreq' = nreq + 1 /\ lastResp'.method = m

\* the step writes task t's execution_complete
Completing(t) == completes'[t] = completes[t] + 1

\* the worker has accepted exactly one execute request so far
SingleExecution == nexec = 1

\* C1: an execute request (with a connector name) received while an
\* execution whose task has begun to run has not ended is answered EXECUTION_ERROR,
\* creates no task and leaves the executor handle as it is.
C1_ExecuteWhileBusyRejected ==
    [][(Handled("execute") /\ lastResp'.code # "INVALID_PARAMS"
            /\ \E t \in Tasks : ex[t] # 0 /\ Live(t))
        => (lastResp'.code = "EXECUTION_ERROR" /\ pc' = pc /\ executor' = executor)]_vars

\* C2: at most one execution is non-terminal at any time.
C2_AtMostOneLive == Cardinality({t \in Tasks : Live(t)}) <= 1

\* C3: an execution whose task started has written exactly one
\* execution_complete once it has ended and none before, and the success
\* field of that notification is true iff the executor state is
\* "completed" when it is written.
C3_OneComplete ==
    /\ [](\A t \in Tasks : completes[t] = IF pc[t] = "done" /\ ex[t] # 0 THEN 1 ELSE 0)
    /\ [][\A t \in Tasks : Completing(t) => (success'[t] <=> state'[ex'[t]] = "completed")]_vars

\* C3 witness: one execution ended with success and another one, on
\* another executor object, ended aborted.
C3_Witness ==
    \E t, u \in Tasks :
        /\ ex[t] # ex[u]
        /\ completes[t] = 1 /\ success[t]
        /\ completes[u] = 1 /\ ~success[u] /\ state[ex[u]] = "aborted"

\* C4: when abort was requested before the execution ended and no
\* exception escaped (the worker still running, the state not "error"),
\* the execution ends in state "aborted" and its execution_complete
\* carries success = false.  Stated for a worker that accepted one execute.
C4_AbortEndsAborted ==
    [][\A t \in Tasks :
         (SingleExecution /\ Completing(t) /\ running
             /\ abort_requested[ex'[t]] /\ state'[ex'[t]] # "error")
         => (state'[ex'[t]] = "aborted" /\ ~success'[t])]_vars

\* C5: once abort has been requested on the executor a task runs, the task
\* writes no further record_fetched, transform_complete or transform_error.
C5_NoRecordAfterAbort ==
    [][\A t \in Tasks :
         (ex[t] # 0 /\ abort_requested[ex[t]]) => recEvents'[t] = recEvents[t]]_vars

\* C5 witness: an execution over two records wrote one record event, was
\* aborted and ended in state "aborted".
C5_Witness ==
    \E t \in Tasks :
        /\ completes[t] = 1
        /\ state[ex[t]] = "aborted"
        /\ total_records[ex[t]] = 2
        /\ recEvents[t] = 1

\* C6: once abort has been requested, the execution is never left blocked
\* at the pause barrier or at the step gate.  Stated for a worker that
\* accepted one execute.
C6_AbortNeverBlocked ==
    \A t \in Tasks :
        (SingleExecution /\ ex[t] # 0 /\ abort_requested[ex[t]])
        => ~(waiting[t] \in {"pause", "step"} /\ ~woken[t])

\* C7: from a pause accepted in state "running" until the next resume or
\* abort, the state is "paused" and the execution writes no record event.
\* Stated for a worker that accepted one execute.
C7_PausedUntilResume ==
    /\ [](\A e \in Execs : (SingleExecution /\ pauseAcc[e]) => state[e] = "paused")
    /\ [][\A t \in Tasks :
            (SingleExecution /\ ex[t] # 0 /\ pauseAcc[ex[t]] /\ pauseAcc'[ex[t]])
            => recEvents'[t] = recEvents[t]]_vars

\* C8: an execution started with step_mode = true has written at most one
\* record event more than the number of step commands received.
C8_StepBudget ==
    \A t \in Tasks :
        (ex[t] # 0 /\ Live(t) /\ cfg[t].step_mode) => recEvents[t] <= steps[ex[t]] + 1

\* C9: no pause, resume, step or abort command changes a terminal state.
\* Stated for a worker that accepted one execute.
C9_TerminalAbsorbing ==
    [][\A e \in Execs :
         (SingleExecution /\ state[e] \in Terminal /\ \E m \in Controls : Handled(m))
         => state'[e] = state[e]]_vars

\* C10: a pause, resume, step or abort request that arrives when the
\* current execution is in a terminal state is answered EXECUTION_ERROR.
\* Stated for a worker that accepted one execute.
C10_ControlAfterEndRejected ==
    [][(SingleExecution /\ (\E m \in Controls : Handled(m))
            /\ executor # 0 /\ state[executor] \in Terminal)
        => lastResp'.code = "EXECUTION_ERROR"]_vars

\* ---------------------------------------------------------------------
\* request methods handle_request routes, "unknown" standing for any other name
Methods == Controls \cup {"initialize", "discover", "execute", "shutdown", "unknown"}

\* the phase notifications of a whole execution, in order (spec: fetch,
\* transform, upload; the executor names them get_data, transform, post_to_index)
PhaseOrder ==
    <<PhaseStart("get_data"), PhaseComplete("get_data", 0),
      PhaseStart("transform"), PhaseComplete("transform", 0),
      PhaseStart("post_to_index"), PhaseComplete("post_to_index", 0)>>

\* notification a is the same kind of phase notification as b
SameKind(a, b) == a.type = b.type /\ a.phase = b.phase

\* the phase whose phase_start the task wrote last without a phase_complete, "" if none
OpenPhase(t) ==
    IF events[t] # <<>> /\ events[t][Len(events[t])].type = "phase_start"
    THEN events[t][Len(events[t])].phase
    ELSE ""

\* C11: a pause, resume, step or abort request received before any execute
\* was accepted is answered EXECUTION_ERROR, creates no executor and
\* changes nothing of the worker, of the executors or of the tasks.
C11_ControlBeforeExecute ==
    [][((\E m \in Controls : Handled(m)) /\ nexec = 0)
        => /\ lastResp'.code = "EXECUTION_ERROR"
           /\ executor' = 0 /\ nexec' = 0 /\ running' = running
           /\ UNCHANGED <<execVars, taskVars>>]_vars

\* C11 witness: the second request, a control request, was answered
\* EXECUTION_ERROR while no execute had been accepted.
C11_Witness ==
    /\ nexec = 0 /\ executor = 0
    /\ lastResp.method \in Controls /\ lastResp.code = "EXECUTION_ERROR"
    /\ lastResp.id = 2

\* C12: the phase notifications of an execution follow the order
\* start/complete of fetch, of transform, of upload; a record event is
\* written only inside its own phase; and the execution ends (writes
\* execution_complete) only with no phase left open.  Stated for a worker
\* that accepted one execute.
C12_PhaseOrder ==
    /\ [](\A t \in Tasks :
            SingleExecution =>
              /\ Len(events[t]) <= Len(PhaseOrder)
              /\ \A i \in 1..Len(events[t]) : SameKind(events[t][i], PhaseOrder[i])
              /\ completes[t] = 1 => OpenPhase(t) = "")
    /\ [][\A t \in Tasks :
            SingleExecution =>
              /\ fetched'[t] # fetched[t] => OpenPhase(t) = "get_data"
              /\ (trComplete'[t] # trComplete[t] \/ trError'[t] # trError[t])
                    => OpenPhase(t) = "transform"]_vars

\* C13: when an execution has written its execution_complete, every
\* phase_start it wrote is directly followed by the phase_complete of the
\* same phase.  Stated for a worker that accepted one execute.
C13_PhasesClosed ==
    \A t \in Tasks :
        (SingleExecution /\ completes[t] = 1)
        => \A i \in 1..Len(events[t]) :
              events[t][i].type = "phase_start"
              => /\ i < Len(events[t])
                 /\ events[t][i + 1].type = "phase_complete"
                 /\ events[t][i + 1].phase = events[t][i].phase

\* C14: while an execution runs, successful_records is the number of
\* transform_complete it wrote and failed_records the number of
\* transform_error, and the records_processed of its
\* phase_complete(transform) is the sum of the two.
C14_CountersMatchEvents ==
    \A t \in Tasks :
        (ex[t] # 0 /\ Live(t))
        => /\ successful_records[ex[t]] = trComplete[t]
           /\ failed_records[ex[t]] = trError[t]
           /\ \A i \in 1..Len(events[t]) :
                SameKind(events[t][i], PhaseComplete("transform", 0))
                => events[t][i].n = trComplete[t] + trError[t]

\* C15: when execution_complete is written, the number of record_fetched
\* written equals the total_records it reports.  Stated for a worker that
\* accepted one execute and is still running, and for an execution no
\* exception escaped from.
C15_FetchedEqualsTotal ==
    [][\A t \in Tasks :
         (SingleExecution /\ Completing(t) /\ running /\ state'[ex'[t]] # "error")
         => fetched'[t] = total_records'[ex'[t]]]_vars

\* C16: an exception of the transform code for a record writes one
\* transform_error and no transform_complete, adds one to failed_records,
\* writes no response and leaves the state and the loop going; the
\* transform phase, when not aborted, ends only after every record was
\* handled; and an execution with a transform error that ends without
\* abort (the worker still running) ends in state "completed".
C16_TransformErrorContinues ==
    /\ [][\A t \in Tasks :
            trError'[t] # trError[t]
            => /\ trError'[t] = trError[t] + 1
               /\ trComplete'[t] = trComplete[t]
               /\ failed_records'[ex[t]] = failed_records[ex[t]] + 1
               /\ nresp' = nresp /\ lastResp' = lastResp
               /\ state' = state
               /\ pc'[t] = "tr_top"]_vars
    /\ [][\A t \in Tasks :
            (pc[t] = "tr_done" /\ pc'[t] # "tr_done" /\ running /\ ~abort_requested[ex[t]])
            => trComplete[t] + trError[t] = nrec[t]]_vars
    /\ [][\A t \in Tasks :
            (Completing(t) /\ trError[t] > 0 /\ running /\ ~abort_requested[ex[t]])
            => state'[ex[t]] = "completed"]_vars

\* C16 witness: an execution whose first record failed in transform and
\* whose second record was transformed ended with success.
C16_Witness ==
    \E t \in Tasks :
        /\ completes[t] = 1 /\ success[t]
        /\ trError[t] = 1 /\ trComplete[t] = 1
        /\ failed_records[ex[t]] = 1 /\ successful_records[ex[t]] = 1

\* C17: the first run of an execution whose connector name matches no
\* discovered class sets the state to "error", writes no phase
\* notification and ends the task with one execution_complete whose
\* success is false.
C17_ConnectorNotFound ==
    [][\A t \in Tasks :
         (pc[t] = "created" /\ pc'[t] # "created" /\ cfg[t].connector = "Missing")
         => /\ state'[ex'[t]] = "error"
            /\ events'[t] = <<>>
            /\ pc'[t] = "done"
            /\ completes'[t] = 1 /\ ~success'[t]]_vars

\* C17 witness: the only execution of the worker ended without a connector
\* having been found.
C17_Witness ==
    /\ SingleExecution
    /\ \E t \in Tasks :
          /\ pc[t] = "done" /\ ex[t] # 0
          /\ ~connector_info[ex[t]]
          /\ state[ex[t]] = "error"
          /\ completes[t] = 1 /\ ~success[t]

\* C18: the handling of a request that has a method and an id writes
\* exactly one response, and the response carries the id of the request,
\* whatever the method and whether the handler succeeds, answers an error
\* or raises.
C18_ResponseCarriesRequestId ==
    [][(\E m \in Methods : Handled(m))
        => (nresp' = nresp + 1 /\ lastResp'.id = RequestId)]_vars

\* C18 witness: the second request, a discover whose handler raised, was
\* answered INTERNAL_ERROR with id 2.
C18_Witness ==
    /\ lastResp = [method |-> "discover", code |-> "INTERNAL_ERROR", id |-> 2, execution_id |-> 0]
    /\ nresp = 2

\* C19: once the response to shutdown is written no further response is
\* written.
C19_NoResponseAfterShutdown ==
    [][lastResp.method = "shutdown" => (nresp' = nresp /\ lastResp' = lastResp)]_vars

\* C19 witness: after an execute and a shutdown, the only requests, the
\* execution was cancelled in state "running" and wrote its execution_complete.
C19_Witness ==
    /\ lastResp.method = "shutdown" /\ lastResp.id = 2
    /\ SingleExecution
    /\ \E t \in Tasks : completes[t] = 1 /\ state[ex[t]] = "running"

\* C20: a line that holds JSON and is not routed to a handler is answered
\* INVALID_REQUEST.
C20_InvalidRequest ==
    [][(nreq' = nreq + 1 /\ lastResp'.method = "" /\ lastResp'.code # "PARSE_ERROR")
        => lastResp'.code = "INVALID_REQUEST"]_vars

\* C21: every framing-failure response (PARSE_ERROR for a line that is not
\* JSON, INVALID_REQUEST for a request without method or id) carries a
\* null id, and the request loop keeps reading after it.
C21_FramingFailureNullId ==
    [][(nreq' = nreq + 1 /\ lastResp'.method = ""
          /\ lastResp'.code \in {"PARSE_ERROR", "INVALID_REQUEST"})
       => (lastResp'.id = 0 /\ running' = running)]_vars

\* C22: an exception raised inside a request handler is answered
\* INTERNAL_ERROR with the request's id; the dispatch changes neither the
\* running flag nor anything of the executor or its tasks, and the
\* request loop does not leave.
C22_HandlerExceptionAnswered ==
    [][(nreq' = nreq + 1 /\ lastResp'.method # "" /\ lastResp'.code = "INTERNAL_ERROR")
       => (/\ lastResp'.id = RequestId
           /\ running' = running
           /\ exited' = ~running
           /\ UNCHANGED <<executor, nexec, execVars, taskVars, noteVars>>)]_vars

\* the second request, sent while an execution is in flight, raised in its
\* handler and the worker is still running
C22_Witness ==
    /\ lastResp.code = "INTERNAL_ERROR"
    /\ lastResp.method \in {"initialize", "discover", "execute"}
    /\ lastResp.id = 2
    /\ running /\ ~exited
    /\ \E t \in Tasks : Live(t)

\* C23: the execution_id in the success response to execute is a non-null
\* identifier (so that it can be the one the execution's
\* execution_complete carries, which execute() assigns when the task runs).
C23_ExecuteReturnsExecutionId ==
    [][(Handled("execute") /\ lastResp'.code = "OK") => lastResp'.execution_id # 0]_vars

\* the step writes a notification of task t (emit_notification, main.py 71-73)
Writes(t) ==
    \/ events'[t] # events[t]
    \/ recEvents'[t] # recEvents[t]
    \/ completes'[t] # completes[t]

\* C24: write_message (main.py 65-69) writes a whole line without an await,
\* so a line is written within one step of its writer; writers never
\* overlap: a response is written only while no task holds the event
\* loop, a task writes only in its own turn, and no step writes for two
\* writers.
C24_WritesNeverOverlap ==
    [][/\ nresp' # nresp => (cur = 0 /\ \A t \in Tasks : ~Writes(t))
       /\ \A t \in Tasks :
            Writes(t) => (/\ cur \in {0, t}
                          /\ nresp' = nresp
                          /\ \A u \in Tasks \ {t} : ~Writes(u))]_vars

\* responses and notifications alternate: in step mode the task wrote
\* phase_start and record_fetched and stopped at the step gate, pause and
\* step were answered, and the task is blocked at the pause barrier
C24_Witness ==
    /\ lastResp.method = "step" /\ lastResp.id = 3
    /\ \E t \in Tasks : waiting[t] = "pause" /\ ~woken[t] /\ fetched[t] = 1

\* C28: pause followed by resume is transparent.  A pause or resume
\* command touches no notification, no counter and no position of a task,
\* and an execution that ends completed (so was never cut short) has
\* written the whole phase sequence, one transform event per fetched
\* record, and counters that equal the events, whatever pauses and
\* resumes it went through.  The second part is stated for a worker that
\* accepted one execute.
C28_PauseResumeTransparent ==
    /\ [][(Handled("pause") \/ Handled("resume"))
          => UNCHANGED <<noteVars, recEvents, completes, success, pc, idx, nrec, cfg, ex,
                         total_records, successful_records, failed_records,
                         abort_requested, step_event, step_mode>>]_vars
    /\ [][\A t \in Tasks :
            (SingleExecution /\ Completing(t) /\ state'[ex'[t]] = "completed")
            => /\ success'[t]
               /\ Len(events'[t]) = Len(PhaseOrder)
               /\ \A i \in 1..Len(PhaseOrder) : SameKind(events'[t][i], PhaseOrder[i])
               /\ events'[t][2].n = fetched'[t]
               /\ events'[t][4].n = fetched'[t]
               /\ trComplete'[t] + trError'[t] = fetched'[t]
               /\ successful_records'[ex'[t]] = trComplete'[t]
               /\ failed_records'[ex'[t]] = trError'[t]
               /\ events'[t][6].n = trComplete'[t]]_vars

\* an execution that wrote one record_fetched was paused, blocked at the
\* pause barrier, and has just been released by resume
C28_Witness ==
    /\ SingleExecution
    /\ lastResp.method = "resume"
    /\ \E t \in Tasks :
         /\ waiting[t] = "pause" /\ woken[t]
         /\ fetched[t] = 1
         /\ state[ex[t]] = "running" /\ ~abort_requested[ex[t]]

C25_ParentGoneLoopExits ==
    /\ (~parent_alive ~> (~running \/ exited))
    /\ (~parent_alive ~> exited)

\* the parent went away while an execution was blocked at the pause
\* barrier and stdin stayed open; the running flag is cleared and the
\* request loop has left
C25_Witness ==
    /\ ~parent_alive /\ ~running /\ exited /\ ~stdin_eof
    /\ lastResp.method = "pause"
    /\ \E t \in Tasks : waiting[t] = "pause" /\ ~woken[t]

\* C26: after a shutdown request, a signal or the end of stdin the request
\* loop leaves without a further line, whatever state an execution is in.
C26_LoopTerminates ==
    /\ [][Handled("shutdown") => exited']_vars
    /\ (~running ~> exited)
    /\ (stdin_eof ~> exited)

\* a signal arrived while the parent was alive and stdin open, with an
\* execution blocked at the step gate; the request loop has left
C26_Witness ==
    /\ ~running /\ exited /\ parent_alive /\ ~stdin_eof
    /\ lastResp.method = "execute" /\ nreq = 1
    /\ \E t \in Tasks : waiting[t] = "step" /\ ~woken[t]

\* C27: once the request loop has left, every execution that was created
\* ends: it has written its one execution_complete and is not blocked at
\* a barrier.
C27_ExecutionsEndAtExit ==
    exited ~> (\A t \in Tasks :
                 pc[t] # "none" => (pc[t] = "done" /\ completes[t] = 1 /\ waiting[t] = "none"))

\* stdin ended after one execute request; the execution, blocked at the
\* step gate, was cancelled and wrote its execution_complete in state
\* "running"
C27_Witness ==
    /\ exited /\ running /\ stdin_eof /\ nreq = 1
    /\ \E t \in Tasks :
         /\ pc[t] = "done" /\ completes[t] = 1 /\ ~success[t]
         /\ state[ex[t]] = "running" /\ step_mode[ex[t]]

C31_DataClientsBySourceType ==
    returned.called =>
        \A i \in 1..Len(returned.list) :
            LET r == returned.list[i]
                clients == {j \in 1..Len(all_classes) :
                               /\ \E b \in 1..Len(all_classes[j].base_classes) :
                                     Contains(all_classes[j].base_classes[b], "DataClient")
                               /\ r.source_type # ""
                               /\ all_classes[j].source_type = r.source_type}
                Position(d) == CHOOSE j \in clients : all_classes[j].class_name = r.data_clients[d]
            IN /\ Len(r.data_clients) = Cardinality(clients)
               /\ \A d \in 1..Len(r.data_clients) :
                     \E j \in clients : all_classes[j].class_name = r.data_clients[d]
               /\ \A d1, d2 \in 1..Len(r.data_clients) :
                     d1 < d2 => Position(d1) < Position(d2)

\* three classes were found: an adapter of DocA links the two data clients
\* of DocA
C31_Witness ==
    /\ returned.called
    /\ Len(all_classes) = 3
    /\ Len(returned.list) = 1
    /\ returned.list[1].source_type = "DocA"
    /\ Len(returned.list[1].data_clients) = 2

\* C32: a source file that fails to parse never makes discover_connectors
\* fail and never hides other files: the result equals the result of
\* discovery on the same tree with the unparsable files removed.
C32_UnparsableFileIgnored ==
    returned.called =>
        LET Parses(f) == f.parse = "ok"
            without == Discover(SelectSeq(tree, Parses), layout)
        IN /\ ~returned.raised
           /\ returned.list = without.list

\* a file with a syntax error and a file that cannot be decoded lie before
\* a file whose adapter is returned
C32_Witness ==
    /\ returned.called
    /\ Len(tree) = 3
    /\ tree[1].parse = "Exception"
    /\ tree[2].parse = "SyntaxError"
    /\ Len(returned.list) = 1

\* C33: data-client instantiation tries (1) the call with no arguments,
\* (2) the call with keyword arguments filled from the environment, (3) the
\* call with every parameter bound to null, and returns the instance of
\* the first of them, in that order, whose call does not raise, or null
\* when all raise.
C33_FirstStrategyWins ==
    instance.called =>
        LET s1 == Call(client_class, NoKwargs)
            s2 == Call(client_class, EnvKwargs(client_class, environ))
            s3 == Call(client_class, NoneKwargs(client_class))
            first == IF ~s1.raised THEN s1 ELSE IF ~s2.raised THEN s2 ELSE s3
        IN /\ instance.raised = first.raised
           /\ instance.obj = first.obj

\* C34: failure to construct the adapter never ends the execution in state
\* error: whatever the adapter's constructor raises, the transform phase
\* that was started runs on.  Stated for a worker that accepted one
\* execute.
C34_AdapterFailureNotFatal ==
    \A t \in Tasks :
        SingleExecution /\ OpenPhase(t) = "transform" => state[ex[t]] # "error"

\* C35: whenever a mock data file is resolvable and loads as JSON in an
\* accepted shape, the fetch phase uses exactly the records of that file,
\* also when the list is empty; the real fetch path is taken only when no
\* mock file is available.
C35_MockFileUsed ==
    fetch_plan.called =>
        /\ mock_file.source # "none" /\ mock_file.shape # "invalid"
              => fetch_plan.path = "mock" /\ fetch_plan.records = mock_file.records
        /\ fetch_plan.path = "real"
              => mock_file.source = "none" \/ mock_file.shape = "invalid"

\* C36: the response to an accepted execute request is written before any
\* notification of the execution it started.  The step that accepts the
\* request writes the response and leaves the new task created, with no
\* notification written; a task writes only after it was accepted.
C36_ResponseBeforeNotifications ==
    [][/\ (Handled("execute") /\ lastResp'.code = "OK")
            => /\ nresp' = nresp + 1
               /\ nexec' = nexec + 1
               /\ pc'[nexec'] = "created"
               /\ events'[nexec'] = <<>> /\ recEvents'[nexec'] = 0 /\ completes'[nexec'] = 0
               /\ \A u \in Tasks : ~Writes(u)
       /\ \A t \in Tasks : Writes(t) => (t <= nexec /\ pc[t] # "none")]_vars

\* the execute request was answered, no other request followed, and the
\* execution has since written notifications
C36_Witness ==
    /\ lastResp.method = "execute" /\ lastResp.code = "OK" /\ nreq = 1
    /\ \E t \in Tasks : events[t] # <<>> /\ recEvents[t] > 0

\* C37: in every reachable state of an executor the pause latch is cleared
\* if and only if the state is paused.  Stated for a worker that accepted
\* one execute.
C37_LatchMatchesState ==
    \A e \in 1..MaxExec :
        SingleExecution => (~pause_event[e] <=> state[e] = "paused")

\* C38: in every execution_complete, successful_records + failed_records
\* is at most total_records, for mock and real fetch alike and also when
\* the data client raises part-way through the stream.  Stated for a
\* worker that accepted one execute.
C38_ProcessedAtMostTotal ==
    [][\A t \in Tasks :
         (SingleExecution /\ Completing(t))
         => successful_records'[ex'[t]] + failed_records'[ex'[t]] <= total_records'[ex'[t]]]_vars

\* C39: the records_processed of the fetch phase's phase_complete equals
\* the number of record_fetched written in that phase, also when the phase
\* was cut short by abort.  Stated for a worker that accepted one execute.
C39_FetchProcessedEqualsFetched ==
    \A t \in Tasks :
        SingleExecution
        => \A i \in 1..Len(events[t]) :
              SameKind(events[t][i], PhaseComplete("get_data", 0))
              => events[t][i].n = fetched[t]

\* C40: in an execution started in step mode the step gate is awaited
\* after every record, the last one of a phase included, and only a step
\* or an abort command received while the execution waits there lets it
\* go on: without one it stays blocked, writes no phase_complete and no
\* execution_complete.  Stated for a worker whose request loop runs.
C40_StepGateAfterEveryRecord ==
    [][\A t \in Tasks :
         ~exited =>
           /\ (recEvents'[t] # recEvents[t] /\ cfg[t].step_mode)
                 => (waiting'[t] = "step" /\ ~woken'[t])
           /\ (waiting[t] = "step" /\ ~woken[t])
                 => \/ Handled("step") \/ Handled("abort")
                    \/ (/\ waiting'[t] = "step" /\ ~woken'[t]
                        /\ events'[t] = events[t] /\ completes'[t] = completes[t])]_vars
====
